---- MODULE Spec2Model ----
(***************************************************************************)
(* Model of BLS_app.py, a Streamlit dashboard script.  The script is run   *)
(* from top to bottom once per session start and once per widget           *)
(* interaction; one run is one action.  The state is what survives or is   *)
(* shown by a run: the source file, the st.cache_data cache of load_data,  *)
(* the number of times the file has been read, the widgets' values and     *)
(* every frame and total the run computed.                                 *)
(***************************************************************************)
EXTENDS Integers, Sequences, FiniteSets, TLC

(* ------------------------------ bounds --------------------------------- *)
\* rows of a dataset whose rows differ in series and year, or in year and value
MaxRows == 2
\* rows of a dataset whose rows differ in date and value
MaxMergeRows == 3
\* reads of the source file after which no further run is explored
MaxReads == 3

(* --------------------------- program constants ------------------------- *)
series_names ==
    ( "LNS12000000"   :> "Civilian Employment" ) @@
    ( "LNS13000000"   :> "Civilian Unemployment" ) @@
    ( "LNS14000000"   :> "Unemployment Rate" ) @@
    ( "CES0000000001" :> "Total Nonfarm Employment" ) @@
    ( "CES0500000002" :> "Average Weekly Hours of All Employees" ) @@
    ( "CES0500000003" :> "Average Hourly Earnings of All Employees" )

default_options_all ==
    << "Civilian Employment", "Civilian Unemployment", "Unemployment Rate",
       "Total Nonfarm Employment", "Average Weekly Hours of All Employees",
       "Average Hourly Earnings of All Employees" >>

UnknownSeries == "Unknown Series"
DefaultLowerYear == 2019

\* the missing value pandas' map() leaves for a key that is not in the mapping
NaN == "NaN"

(* ------------------------------ inputs --------------------------------- *)
AllColumns == {"series_id", "date", "year", "value"}
UnknownId == "XXX00000000"
DataIds == DOMAIN series_names \cup {UnknownId}
Years == (DefaultLowerYear - 1) .. (DefaultLowerYear + 1)
Dates == {1, 2}
Values == {1, 2}

SeqsUpTo(S, n) == UNION { [1..k -> S] : k \in 0..n }

\* rows that differ in series and year: every catalog series and one series
\* outside the catalog
SeriesYearRows == [series_id : DataIds, date : {1}, year : Years, value : {1}]
\* rows of the two series of the proportion chart that differ in year and value
TotalRows == [series_id : {"LNS12000000", "LNS13000000"}, date : {1},
              year : Years, value : Values]
\* rows of the two compared series that differ in date and value
MergeRows == [series_id : {"CES0500000002", "CES0500000003"},
              date : Dates, year : {DefaultLowerYear}, value : Values]

\* a CSV file that exists and parses, with all four columns
GoodFiles ==
    { [kind |-> "csv", columns |-> AllColumns, rows |-> rs] :
        rs \in SeqsUpTo(SeriesYearRows, MaxRows) \cup SeqsUpTo(TotalRows, MaxRows)
               \cup SeqsUpTo(MergeRows, MaxMergeRows) }
\* a CSV file that parses but lacks one of the columns the script refers to
ShortFiles ==
    { [kind |-> "csv", columns |-> AllColumns \ {c}, rows |-> rs] :
        c \in AllColumns, rs \in SeqsUpTo(SeriesYearRows, 1) }
\* no file at all, or bytes that read_csv cannot parse
BrokenFiles ==
    { [kind |-> k, columns |-> {}, rows |-> << >>] : k \in {"missing", "unparseable"} }
Files == GoodFiles \cup ShortFiles \cup BrokenFiles

VARIABLES
    file,                   \* BLS_data.csv on disk
    cache,                  \* st.cache_data entry of load_data(): filled or not, and the frame
    reads,                  \* number of executions of pd.read_csv
    status,                 \* "init", "load_failed", "error" or "done": how the last run ended
    rendered,               \* the elements the last run put on the page
    data,                   \* the annotated frame of the last run
    options,                \* the options of the series multiselect
    slider_bounds,          \* <<min_value, max_value>> of the year slider
    selected_series_names,  \* value of the multiselect
    selected_years,         \* value of the slider
    filtered_data,
    merged_data,
    employment_total,
    unemployment_total,
    summary,
    export

vars == << file, cache, reads, status, rendered, data, options, slider_bounds,
           selected_series_names, selected_years, filtered_data, merged_data,
           employment_total, unemployment_total, summary, export >>

(* ------------------------- the data loader ----------------------------- *)
EmptyFrame == [columns |-> {}, rows |-> << >>]
EmptyCache == [filled |-> FALSE, value |-> EmptyFrame]

\* pd.read_csv('BLS_data.csv', parse_dates=['date']): raises when the file is
\* absent, when it cannot be parsed, and when the column named in parse_dates
\* is not in it; any other column may be absent without an error here.
read_csv(f) ==
    IF f.kind # "csv" \/ "date" \notin f.columns
    THEN [raised |-> TRUE, value |-> EmptyFrame]
    ELSE [raised |-> FALSE, value |-> [columns |-> f.columns, rows |-> f.rows]]

\* A variant of load_data whose cache entry is stored but never reused
\* (as with @st.cache_data(ttl=0)): the body runs at every call.
load_data_expired(c, f) ==
    LET r == read_csv(f)
    IN  [raised |-> r.raised, value |-> r.value,
         cache |-> IF r.raised THEN c ELSE [filled |-> TRUE, value |-> r.value],
         reads |-> 1]

\* @st.cache_data load_data(): a filled cache entry is returned without running
\* the body; otherwise the body runs, and its result is stored only when it
\* returns (an exception stores nothing).
load_data(c, f) ==
    IF c.filled
    THEN [raised |-> FALSE, value |-> c.value, cache |-> c, reads |-> 0]
    ELSE LET r == read_csv(f)
         IN  [raised |-> r.raised, value |-> r.value,
              cache |-> IF r.raised THEN c ELSE [filled |-> TRUE, value |-> r.value],
              reads |-> 1]

(* ------------------------ catalog annotation --------------------------- *)
\* Series.map(series_names): the mapped name, NaN for a key not in the mapping
map_name(id) == IF id \in DOMAIN series_names THEN series_names[id] ELSE NaN

fillna(x, v) == IF x = NaN THEN v ELSE x

\* A variant of the annotation without the fillna line.
annotate_nofill(rows) ==
    [i \in DOMAIN rows |->
        [series_id |-> rows[i].series_id, date |-> rows[i].date,
         year |-> rows[i].year, value |-> rows[i].value,
         series_name |-> map_name(rows[i].series_id)]]

\* data['series_name'] = data['series_id'].map(series_names), then fillna
annotate(rows) ==
    [i \in DOMAIN rows |->
        [series_id |-> rows[i].series_id, date |-> rows[i].date,
         year |-> rows[i].year, value |-> rows[i].value,
         series_name |-> fillna(map_name(rows[i].series_id), UnknownSeries)]]

(* ----------------------------- the sidebar ----------------------------- *)
Range(s) == { s[i] : i \in DOMAIN s }
Min(S) == CHOOSE x \in S : \A y \in S : x <= y
Max(S) == CHOOSE x \in S : \A y \in S : x >= y

\* data['series_name'].unique()
available_options(d) == { d[i].series_name : i \in DOMAIN d }

\* [opt for opt in default_options if opt in available_options]
default_options(avail) ==
    Range(SelectSeq(default_options_all, LAMBDA opt : opt \in avail))

NoWidgets == [set |-> FALSE, names |-> {}, years |-> << >>]

\* st.sidebar.multiselect: the session's value when the user has set one,
\* the default otherwise
multiselect(opts, default, w) == IF w.set THEN w.names ELSE default

\* st.sidebar.slider with a range value: Streamlit swaps a reversed default
\* and widens min_value/max_value so that they contain the default; it
\* returns the session's value when the user has set one.
slider(min_value, max_value, value, w) ==
    LET lo0 == Min({value[1], value[2]})
        hi0 == Max({value[1], value[2]})
        mn  == Min({lo0, min_value, max_value})
        mx  == Max({hi0, min_value, max_value})
    IN  [bounds |-> << mn, mx >>,
         value  |-> IF w.set /\ w.years # << >> THEN w.years ELSE << lo0, hi0 >>]

(* ---------------------------- filter engine ---------------------------- *)
\* A variant of between with both ends exclusive.
between_exclusive(x, lo, hi) == lo < x /\ x < hi

\* Series.between(lo, hi), inclusive on both ends
between(x, lo, hi) == lo <= x /\ x <= hi

\* A variant that treats an empty selection as "all series".
selected_series_ids_all(names) ==
    IF names = {} THEN DOMAIN series_names
    ELSE { id \in DOMAIN series_names : series_names[id] \in names }

\* [series_id for series_id, name in series_names.items() if name in selected]
selected_series_ids(names) ==
    { id \in DOMAIN series_names : series_names[id] \in names }

\* A variant that filters on the annotated display name.
filter_by_name(d, names, yrs) ==
    SelectSeq(d, LAMBDA r : r.series_name \in names
                             /\ between(r.year, yrs[1], yrs[2]))

\* data[data['series_id'].isin(selected_series_ids) & data['year'].between(..)]
filter_data(d, names, yrs) ==
    SelectSeq(d, LAMBDA r : r.series_id \in selected_series_ids(names)
                             /\ between(r.year, yrs[1], yrs[2]))

\* data[data['series_id'] == id]
series_slice(d, id) == SelectSeq(d, LAMBDA r : r.series_id = id)

(* ---------------------- aggregation and reshaping ---------------------- *)
RECURSIVE match_rows(_, _)
\* the rows of the right frame whose date equals that of the left row l, each
\* joined to l, in the right frame's order
match_rows(l, right) ==
    IF right = << >> THEN << >>
    ELSE (IF Head(right).date = l.date
          THEN << [date |-> l.date, avg_weekly_hours |-> l.value,
                   avg_hourly_earnings |-> Head(right).value] >>
          ELSE << >>) \o match_rows(l, Tail(right))

RECURSIVE pd_merge_cross(_, _)
\* A variant of the merge without the key: every left row with every right row.
pd_merge_cross(left, right) ==
    IF left = << >> THEN << >>
    ELSE [j \in DOMAIN right |->
            [date |-> Head(left).date, avg_weekly_hours |-> Head(left).value,
             avg_hourly_earnings |-> right[j].value]]
         \o pd_merge_cross(Tail(left), right)

RECURSIVE pd_merge_left(_, _)
\* A variant of the merge with how='left': a left row without a match is kept.
pd_merge_left(left, right) ==
    IF left = << >> THEN << >>
    ELSE (IF match_rows(Head(left), right) = << >>
          THEN << [date |-> Head(left).date, avg_weekly_hours |-> Head(left).value,
                   avg_hourly_earnings |-> 0] >>
          ELSE match_rows(Head(left), right))
         \o pd_merge_left(Tail(left), right)

RECURSIVE pd_merge(_, _)
\* pd.merge(left[['date','value']], right[['date','value']], on='date'):
\* the default how='inner', one output row per pair of rows with equal date
pd_merge(left, right) ==
    IF left = << >> THEN << >>
    ELSE match_rows(Head(left), right) \o pd_merge(Tail(left), right)

\* A variant of the total that counts the rows instead of adding the values.
value_count(rows) == Len(rows)

RECURSIVE value_sum(_)
\* frame['value'].sum(): 0 for a frame without rows
value_sum(rows) ==
    IF rows = << >> THEN 0 ELSE Head(rows).value + value_sum(Tail(rows))

\* the rows of one series within the year range, taken from the full frame
year_slice(d, id, yrs) ==
    SelectSeq(d, LAMBDA r : r.series_id = id /\ between(r.year, yrs[1], yrs[2]))

\* filtered_data.groupby('series_name')['value'].describe(): one entry per
\* name that occurs in the frame (count, min and max of the eight statistics)
groupby_describe(fd) ==
    [g \in { fd[i].series_name : i \in DOMAIN fd } |->
        LET vs == { fd[i].value : i \in { j \in DOMAIN fd : fd[j].series_name = g } }
        IN  [count |-> Cardinality({ j \in DOMAIN fd : fd[j].series_name = g }),
             min |-> Min(vs), max |-> Max(vs)]]

\* filtered_data.to_csv(index=False): the header line, then one line per row
to_csv(fd) ==
    << << "series_id", "date", "year", "value", "series_name" >> >> \o
    [i \in DOMAIN fd |->
        << fd[i].series_id, fd[i].date, fd[i].year, fd[i].value, fd[i].series_name >>]

(* ------------------------------ the script ----------------------------- *)
WidgetElements == {"sidebar_header", "series_multiselect"}
FilterElements == WidgetElements \cup {"year_slider", "title"}
AllElements ==
    FilterElements \cup {"chart_unemployment", "chart_nonfarm", "chart_comparison",
                         "chart_pie", "summary_table", "data_table", "download_button"}

\* A variant of the script that builds the sidebar before it loads the data.
rendered_before_sidebar_first(line) ==
    IF line <= 62 THEN WidgetElements
    ELSE IF line <= 127 THEN FilterElements
    ELSE AllElements

\* the elements that the st.* calls completed before a line of the script have
\* put on the page: nothing down to line 37 (st.set_page_config draws no
\* element); the sidebar header and the multiselect while the slider's
\* arguments are evaluated (lines 62-64); these, the slider and the title while
\* the first chart is built (line 127); every element at the end of the script
rendered_before(line) ==
    IF line <= 37 THEN {}
    ELSE IF line <= 62 THEN WidgetElements
    ELSE IF line <= 127 THEN FilterElements
    ELSE AllElements

\* What one top-to-bottom run of the script leaves behind, given the cache c,
\* the file f and the widgets' session state w.  An exception ends the run
\* where it is raised: what was rendered before it stays on the page, what
\* comes after it is never computed.
Script(c, f, w) ==
    LET ld   == load_data(c, f)
        cols == ld.value.columns
        s0   == [cache |-> ld.cache, reads |-> ld.reads, status |-> "load_failed",
                 rendered |-> rendered_before(29), data |-> << >>, options |-> {},
                 slider_bounds |-> << >>, names |-> {}, years |-> << >>,
                 filtered |-> << >>, merged |-> << >>, emp |-> 0, unemp |-> 0,
                 summary |-> << >>, export |-> << >>]
    IN
    \* line 29: data = load_data()
    IF ld.raised THEN s0
    \* line 32: data['series_id'] raises KeyError without that column
    ELSE IF "series_id" \notin cols
         THEN [s0 EXCEPT !.status = "error", !.rendered = rendered_before(32)]
    ELSE
    LET d     == annotate(ld.value.rows)
        opts  == available_options(d)
        names == multiselect(opts, default_options(opts), w)
        s1    == [s0 EXCEPT !.status = "error", !.data = d, !.options = opts,
                            !.names = names,
                            !.rendered = rendered_before(62)]
    IN
    \* lines 62-63: data['year'] raises KeyError without that column, and
    \* int() of the minimum of an empty column (NaN) raises ValueError
    IF "year" \notin cols \/ d = << >> THEN s1
    ELSE
    LET ys  == { d[i].year : i \in DOMAIN d }
        sl  == slider(Min(ys), Max(ys), << DefaultLowerYear, Max(ys) >>, w)
        yrs == sl.value
        fd  == filter_data(d, names, yrs)
        s2  == [s1 EXCEPT !.slider_bounds = sl.bounds, !.years = yrs, !.filtered = fd,
                            !.rendered = rendered_before(127)]
    IN
    \* line 127: unemployment_data['value'] raises KeyError without that column
    IF "value" \notin cols THEN s2
    ELSE
    LET hours_data    == series_slice(d, "CES0500000002")
        earnings_data == series_slice(d, "CES0500000003")
    IN  [s2 EXCEPT
            !.status   = "done",
            !.merged   = pd_merge(hours_data, earnings_data),
            !.emp      = value_sum(year_slice(d, "LNS12000000", yrs)),
            !.unemp    = value_sum(year_slice(d, "LNS13000000", yrs)),
            !.summary  = groupby_describe(fd),
            !.export   = to_csv(fd),
            !.rendered = rendered_before(336)]

(* ------------------------------- actions ------------------------------- *)
Init ==
    /\ file \in Files
    /\ cache = EmptyCache
    /\ reads = 0
    /\ status = "init"
    /\ rendered = {}
    /\ data = << >>
    /\ options = {}
    /\ slider_bounds = << >>
    /\ selected_series_names = {}
    /\ selected_years = << >>
    /\ filtered_data = << >>
    /\ merged_data = << >>
    /\ employment_total = 0
    /\ unemployment_total = 0
    /\ summary = << >>
    /\ export = << >>

\* one run of the script with the widgets' session state w
Run(w) ==
    \E o \in { Script(cache, file, w) } :
        /\ reads + o.reads <= MaxReads
        /\ cache' = o.cache
        /\ reads' = reads + o.reads
        /\ status' = o.status
        /\ rendered' = o.rendered
        /\ data' = o.data
        /\ options' = o.options
        /\ slider_bounds' = o.slider_bounds
        /\ selected_series_names' = o.names
        /\ selected_years' = o.years
        /\ filtered_data' = o.filtered
        /\ merged_data' = o.merged
        /\ employment_total' = o.emp
        /\ unemployment_total' = o.unemp
        /\ summary' = o.summary
        /\ export' = o.export
        /\ UNCHANGED file

\* a browser session starts (or the page is reloaded): the widgets have no
\* state and take their defaults
NewSession == Run(NoWidgets)

\* the user adds an option to the series multiselect or removes one from it;
\* Streamlit re-runs the script with the other widget as it was
ToggleSeries(name) ==
    /\ "series_multiselect" \in rendered
    /\ name \in options
    /\ Run([set |-> TRUE,
            names |-> IF name \in selected_series_names
                      THEN selected_series_names \ {name}
                      ELSE selected_series_names \cup {name},
            years |-> selected_years])

\* the year ranges the slider lets the user pick
SliderRanges ==
    IF "year_slider" \notin rendered THEN {}
    ELSE UNION { { << lo, hi >> : hi \in lo..slider_bounds[2] } :
                 lo \in slider_bounds[1]..slider_bounds[2] }

\* the user moves a handle of the year slider; Streamlit re-runs the script
\* with the other widget as it was
MoveSlider(yrs) ==
    /\ yrs \in SliderRanges
    /\ yrs # selected_years
    /\ Run([set |-> TRUE, names |-> selected_series_names, years |-> yrs])

Next ==
    \/ NewSession
    \/ \E name \in options : ToggleSeries(name)
    \/ \E yrs \in SliderRanges : MoveSlider(yrs)

Spec == Init /\ [][Next]_vars

(* ============================== claims ================================= *)
HoursIdx == { i \in DOMAIN data : data[i].series_id = "CES0500000002" }
EarningsIdx == { i \in DOMAIN data : data[i].series_id = "CES0500000003" }
Smaller(a, b) == IF a <= b THEN a ELSE b

\* a row of the dataset that the selection and the year range ask for
InView(r) ==
    /\ \E id \in DOMAIN series_names :
          r.series_id = id /\ series_names[id] \in selected_series_names
    /\ selected_years[1] <= r.year
    /\ r.year <= selected_years[2]

\* C1: once the filter step has run, the FilteredView is exactly the rows of
\* the dataset whose series_id is a catalog id with a selected display name and
\* whose year lies in the inclusive range: none is left out, none is added, in
\* the dataset's order.
C1_FilterExact ==
    "year_slider" \in rendered =>
        /\ \A k \in DOMAIN filtered_data : InView(filtered_data[k])
        /\ \A i \in DOMAIN data :
              InView(data[i]) => \E k \in DOMAIN filtered_data : filtered_data[k] = data[i]
        /\ Len(filtered_data) = Cardinality({ i \in DOMAIN data : InView(data[i]) })

\* a run whose view keeps a row on the upper end of the range and drops a row
\* of a selected series that lies just below its lower end
C1_Witness ==
    /\ status = "done"
    /\ selected_years[1] < selected_years[2]
    /\ \E i, j \in DOMAIN data :
          /\ InView(data[i]) /\ data[i].year = selected_years[2]
          /\ ~InView(data[j]) /\ data[j].year = selected_years[1] - 1
          /\ data[j].series_name \in selected_series_names

\* C2 as stated: after any number of runs the file has been read exactly once,
\* also when the load failed.
C2_ReadExactlyOnce == status # "init" => reads = 1

\* C2 as amended: a call of load_data() reads the file exactly when the cache is
\* empty; a filled cache is returned unchanged without a read, and the cache is
\* filled by exactly the reads that do not fail.
C2_ReadOnlyOnMiss ==
    [][ /\ cache.filled => reads' = reads /\ cache' = cache
        /\ ~cache.filled => /\ reads' = reads + 1
                            /\ cache'.filled <=> status' # "load_failed" ]_vars

\* a run triggered by a widget found the cache filled: one read in all
C2_Witness ==
    /\ status = "done"
    /\ cache.filled
    /\ reads = 1
    /\ selected_series_names # default_options(options)

DownstreamOutputs == AllElements \ {"sidebar_header", "title"}

\* the file is absent, unparseable or lacks a column the script refers to
Malformed(f) == f.kind # "csv" \/ f.columns # AllColumns

C4_AtMostSmallerSlice ==
    status = "done" =>
        Len(merged_data) <= Smaller(Cardinality(HoursIdx), Cardinality(EarningsIdx))

UniqueDates(idx) == \A i, j \in idx : data[i].date = data[j].date => i = j

\* C4 as amended: the comparison table has one row per pair of an hours row and
\* an earnings row with the same date; that is at most min(|hours|, |earnings|)
\* when no date occurs twice in either slice.
C4_MergeRowCount ==
    status = "done" =>
        /\ Len(merged_data) =
              Cardinality({ p \in HoursIdx \X EarningsIdx : data[p[1]].date = data[p[2]].date })
        /\ UniqueDates(HoursIdx) /\ UniqueDates(EarningsIdx) =>
              Len(merged_data) <= Smaller(Cardinality(HoursIdx), Cardinality(EarningsIdx))

\* two hours rows with different dates, one earnings row matching one of them
C4_Witness ==
    /\ status = "done"
    /\ Cardinality(HoursIdx) = 2 /\ UniqueDates(HoursIdx)
    /\ Cardinality(EarningsIdx) = 1
    /\ Len(merged_data) = 1

\* C5: a date is in the comparison table iff the full dataset has an hours row
\* and an earnings row with that date, whatever the selection and the range.
C5_InnerJoinDates ==
    status = "done" =>
        \A d \in { data[i].date : i \in DOMAIN data }
                 \cup { merged_data[k].date : k \in DOMAIN merged_data } :
            (\E k \in DOMAIN merged_data : merged_data[k].date = d)
            <=> /\ \E i \in HoursIdx : data[i].date = d
                /\ \E j \in EarningsIdx : data[j].date = d

\* one date in both slices, another in the hours slice only, and the hours
\* series not in the FilteredView
C5_Witness ==
    /\ status = "done"
    /\ \E i \in HoursIdx : \E j \in EarningsIdx : data[i].date = data[j].date
    /\ \E i \in HoursIdx : \A j \in EarningsIdx : data[i].date # data[j].date
    /\ \A k \in DOMAIN filtered_data : filtered_data[k].series_id # "CES0500000002"
    /\ merged_data # << >>

RECURSIVE IndexSum(_)
\* the sum of value over a set of row numbers of the dataset
IndexSum(idx) ==
    IF idx = {} THEN 0
    ELSE LET i == CHOOSE j \in idx : TRUE
         IN  data[i].value + IndexSum(idx \ {i})

InRange(id) ==
    { i \in DOMAIN data : /\ data[i].series_id = id
                          /\ selected_years[1] <= data[i].year
                          /\ data[i].year <= selected_years[2] }

\* C6: each proportion total is the sum of value over the rows of its series in
\* the inclusive year range, taken from the full dataset whatever is selected,
\* and is 0 when there is no such row.
C6_Totals ==
    status = "done" =>
        /\ employment_total = IndexSum(InRange("LNS12000000"))
        /\ unemployment_total = IndexSum(InRange("LNS13000000"))
        /\ InRange("LNS12000000") = {} => employment_total = 0
        /\ InRange("LNS13000000") = {} => unemployment_total = 0

\* employment rows worth 2 in range while the series is deselected, and the
\* only unemployment row out of range
C6_Witness ==
    /\ status = "done"
    /\ employment_total = 2
    /\ "Civilian Employment" \notin selected_series_names
    /\ \E i \in DOMAIN data : data[i].series_id = "LNS13000000"
    /\ InRange("LNS13000000") = {}
    /\ unemployment_total = 0

\* C7: the year range handed to the filter lies within the observed years.
C7_RangeWithinObservedYears ==
    "year_slider" \in rendered =>
        /\ Min({ data[i].year : i \in DOMAIN data }) <= selected_years[1]
        /\ selected_years[1] <= selected_years[2]
        /\ selected_years[2] <= Max({ data[i].year : i \in DOMAIN data })

C9_AnnotationTotal ==
    status # "init" /\ file.kind = "csv" /\ {"date", "series_id"} \subseteq file.columns =>
        /\ "sidebar_header" \in rendered
        /\ Len(data) = Len(file.rows)
        /\ \A i \in DOMAIN data :
              /\ data[i].series_id = file.rows[i].series_id
              /\ data[i].series_name # NaN
              /\ data[i].series_id \in DOMAIN series_names =>
                    data[i].series_name = series_names[data[i].series_id]
              /\ data[i].series_id \notin DOMAIN series_names =>
                    data[i].series_name = "Unknown Series"

\* a dataset with a catalog row and a row outside the catalog, annotated
C9_Witness ==
    /\ "sidebar_header" \in rendered
    /\ \E i, j \in DOMAIN data :
          /\ data[i].series_name = "Unknown Series"
          /\ data[j].series_name = "Civilian Unemployment"

\* C10: no row outside the catalog is ever in the FilteredView, the summary or
\* the export, although "Unknown Series" is an option of the multiselect
\* exactly when the dataset has such a row.
C10_UnknownNeverShown ==
    /\ \A k \in DOMAIN filtered_data : filtered_data[k].series_id \in DOMAIN series_names
    /\ "Unknown Series" \notin DOMAIN summary
    /\ \A k \in 2..Len(export) : export[k][1] \in DOMAIN series_names
    /\ "series_multiselect" \in rendered =>
          ("Unknown Series" \in options
              <=> \E i \in DOMAIN data : data[i].series_id \notin DOMAIN series_names)

\* the user has selected "Unknown Series" and a row outside the catalog lies
\* in the year range
C10_Witness ==
    /\ status = "done"
    /\ "Unknown Series" \in selected_series_names
    /\ \E i \in DOMAIN data :
          /\ data[i].series_id \notin DOMAIN series_names
          /\ selected_years[1] <= data[i].year /\ data[i].year <= selected_years[2]

====
